---- MODULE Spec2Model ----
(***************************************************************************)
(* Browser media converter: the batch conversion orchestrator              *)
(* (convertFiles), the single-file converter (convertFile) and the page    *)
(* component that drives them (Dropzone), over one shared FFmpeg engine.   *)
(*                                                                         *)
(* Strings that the code takes apart (file names, extensions, MIME types)  *)
(* are sequences of symbols; the symbol "." is the dot, "/" the slash and  *)
(* every other symbol stands for a run of characters without dot or slash. *)
(* Byte sizes are counted in KiB.                                          *)
(***************************************************************************)
EXTENDS Integers, Sequences, FiniteSets, TLC

\* ------------------------------------------------------------------ bounds
MaxFiles == 5
MaxFaults == 2
MaxCalls == 2

\* --------------------------------------------------------------- constants
MAX_FILE_SIZE == 2000 * 1024
ChunkOfThree == 2 + 1

CHUNK_SIZE == 2
WEB_FRIENDLY_IMAGE_FORMATS == {"jpg", "jpeg", "png", "webp"}
VECTOR_FORMATS == {"svg", "eps", "ai"}

\* 2 GiB in KiB
TwoGiB == 2048 * 1024

MiB == 1024
GiB == 1024 * 1024
MEMORY_SPLIT_NUM == 4
MEMORY_SPLIT_DEN == 5
MIN_MEMORY == 64 * 1024
DefaultOfTwoGiB == 2048 * 1024
DEFAULT_MEMORY == 512 * 1024

\* the heap limit a 64-bit Chrome reports (4 GiB)
ChromeHeapLimit == 4096 * 1024

\* the heap limits of the hosts: none reported, one below the floor (1 MiB),
\* the values around 1 GiB, 2 GiB
HeapLimits == {0, 1024, 1024 * 1024 - 1, 1024 * 1024, TwoGiB}

Calls == 1..MaxCalls
Slots == 1..CHUNK_SIZE

VARIABLES
  heap,      \* the job descriptor objects, by reference (index)
  call,      \* per convertFiles invocation: its locals and position
  slot,      \* per invocation and chunk position: the convertFile activation
  queue,     \* engine requests posted and not yet settled, in posting order
  fs,        \* the engine's virtual filesystem: name -> content
  faults,    \* number of engine failures that have happened
  running,   \* the invocation whose synchronous code is running, 0 if none
  urls,      \* number of object URLs created so far
  trace,     \* observed events of the invocations, in order
  observe,   \* whether the events are recorded
  files,     \* the page's job list (React state): references into heap
  isFFMPEGLoaded,
  isConversionCompleted,
  conversionError,
  jsHeapSizeLimit,  \* window.performance.memory.jsHeapSizeLimit, 0 if absent
  loads,            \* number of engines loaded by the page so far
  revoked           \* the object URLs released by URL.revokeObjectURL

engineVars == <<queue, fs, faults>>
pageVars == <<files, isFFMPEGLoaded, isConversionCompleted, conversionError>>
hostVars == <<jsHeapSizeLimit, loads, revoked>>
vars == <<heap, call, slot, queue, fs, faults, running, urls, trace, observe,
          files, isFFMPEGLoaded, isConversionCompleted, conversionError,
          jsHeapSizeLimit, loads, revoked>>

\* ------------------------------------------------------------ string helpers
LowerSym(x) ==
  CASE x = "PNG" -> "png"
    [] x = "BMP" -> "bmp"
    [] x = "WEBM" -> "webm"
    [] OTHER -> x

toLowerCase(str) == [j \in 1..Len(str) |-> LowerSym(str[j])]

Dots(str) == {j \in 1..Len(str) : str[j] = "."}

lastIndexOf(str) == IF Dots(str) = {} THEN 0 ELSE CHOOSE j \in Dots(str) : \A m \in Dots(str) : m <= j

\* /(?:\.([^.]+))?$/ : the text after the last dot when that text is not
\* empty, else the empty string
getFileExtension(file_name) ==
  LET d == lastIndexOf(file_name)
  IN IF d = 0 \/ d = Len(file_name) THEN <<>> ELSE SubSeq(file_name, d + 1, Len(file_name))

removeFileExtension(file_name) ==
  LET d == lastIndexOf(file_name)
  IN IF d # 0 THEN SubSeq(file_name, 1, d - 1) ELSE file_name

startsWith(str, prefix) ==
  /\ Len(str) >= Len(prefix)
  /\ SubSeq(str, 1, Len(prefix)) = prefix

\* Set.has(to.toLowerCase()) for a one-symbol format name
HasFormat(set, to) == Len(to) = 1 /\ toLowerCase(to)[1] \in set

\* ------------------------------------------------------------ job descriptors
NoData == [present |-> FALSE, size |-> 0]
Data(n) == [present |-> TRUE, size |-> n]

\* name.split(".").pop(): the last of the pieces between the dots, which is
\* the whole name when it has no dot
SplitPop(name) ==
  IF Dots(name) = {} THEN name
  ELSE SubSeq(name, lastIndexOf(name) + 1, Len(name))

NewFile(name, type, fileData, to) ==
  [name |-> name, type |-> type, fileData |-> fileData, from |-> SplitPop(name), to |-> to,
   isConverting |-> FALSE, isConverted |-> FALSE, isErrored |-> FALSE,
   url |-> 0, output |-> <<>>, error |-> ""]

\* a.fileData?.size || 0
SortKey(f) == IF f.fileData.present THEN f.fileData.size ELSE 0

\* Array.prototype.sort with the comparator of convertFiles: a stable sort
\* of the references by ascending size
RECURSIVE SortFilesFrom(_, _, _)
SortFilesFrom(h, list, n) ==
  IF n = 0 THEN <<>>
  ELSE LET rest == SortFilesFrom(h, list, n - 1)
           RECURSIVE InsLast(_)
           InsLast(s) ==
             IF s = <<>> THEN <<list[n]>>
             ELSE IF SortKey(h[list[n]]) - SortKey(h[s[Len(s)]]) < 0
                  THEN InsLast(SubSeq(s, 1, Len(s) - 1)) \o <<s[Len(s)]>>
                  ELSE s \o <<list[n]>>
       IN InsLast(rest)

Unsorted(h, list) == list

\* const sortedFiles = [...files].sort(...)
SortFiles(h, list) == SortFilesFrom(h, list, Len(list))

\* ---------------------------------------------------------- memory settings
Max(a, b) == IF a >= b THEN a ELSE b
Unclamped(a, b) == a

Min(a, b) == IF a <= b THEN a ELSE b

calculateMemorySettingsBoth(fileSize, jsMemory) ==
  LET availableMemory == IF jsMemory # 0 THEN Max(MIN_MEMORY, jsMemory) ELSE DEFAULT_MEMORY
      safeMemory == (availableMemory * MEMORY_SPLIT_NUM) \div MEMORY_SPLIT_DEN
      bufsize == Min(Max(fileSize * 2, 1024), safeMemory)
  IN [threads |-> IF fileSize > 50 * 1024 /\ availableMemory < 1024 * 1024 THEN 1 ELSE 0,
      bufsize |-> bufsize]

\* calculateMemorySettings(fileSize), with the heap limit it reads; sizes in
\* KiB, bufsize the number in front of the "K"
calculateMemorySettings(fileSize, jsMemory) ==
  LET availableMemory == IF jsMemory # 0 THEN Max(MIN_MEMORY, jsMemory) ELSE DEFAULT_MEMORY
      safeMemory == (availableMemory * MEMORY_SPLIT_NUM) \div MEMORY_SPLIT_DEN
      bufsize == Min(Max(fileSize * 2, 1024), safeMemory)
  IN [threads |-> IF fileSize > 50 * 1024 \/ availableMemory < 1024 * 1024 THEN 1 ELSE 0,
      bufsize |-> bufsize]

NoSettings == [threads |-> 0, bufsize |-> 0]

\* ---------------------------------------------------------- command recipes
\* a command is a sequence of arguments, each argument a sequence of symbols
Args(strs) == [j \in 1..Len(strs) |-> <<strs[j]>>]

VIDEO_CODEC_PRESETS ==
  [h264 |-> [codec |-> "libx264", crf |-> "28", preset |-> "faster", profile |-> "main"],
   vp8 |-> [codec |-> "libvpx", cpuUsed |-> "4", deadline |-> "realtime", bitrate |-> "1M"]]

AUDIO_CODEC_PRESETS ==
  [aac |-> [codec |-> "aac", bitrate |-> "128k"],
   mp3 |-> [codec |-> "libmp3lame", bitrate |-> "192k", compressionLevel |-> "2"],
   vorbis |-> [codec |-> "libvorbis", quality |-> "4"]]

NoAudioCodecCommand(format) == <<>>

\* buildAudioCodecCommand(format)
buildAudioCodecCommand(format) ==
  LET preset == IF Len(format) = 1 /\ format[1] \in DOMAIN AUDIO_CODEC_PRESETS
                THEN AUDIO_CODEC_PRESETS[format[1]]
                ELSE AUDIO_CODEC_PRESETS.aac
  IN <<"-c:a", preset.codec>>
       \o (IF "bitrate" \in DOMAIN preset THEN <<"-b:a", preset.bitrate>>
           ELSE IF "quality" \in DOMAIN preset THEN <<"-q:a", preset.quality>>
           ELSE <<>>)

\* buildVideoCodecCommand(format, preset)
buildVideoCodecCommand(format, preset) ==
  <<"-c:v", preset.codec>>
    \o (IF "crf" \in DOMAIN preset
        THEN <<"-crf", preset.crf, "-preset", preset.preset>>
        ELSE <<"-cpu-used", preset.cpuUsed, "-deadline", preset.deadline, "-b:v", preset.bitrate>>)
    \o (IF format = <<"3gp">>
        THEN <<"-r", "20", "-s", "352x288", "-profile:v", "baseline", "-level", "3.0",
               "-pix_fmt", "yuv420p", "-maxrate", "400k">>
        ELSE <<>>)
    \o buildAudioCodecCommand(format)

\* the switch of buildFFmpegCommand for a video source
VideoCodecCmd(format) ==
  LET fmt == toLowerCase(format)
  IN CASE fmt = <<"mp4v">> ->
            <<"-c:v", "libx264", "-preset", "fast", "-crf", "28", "-profile:v", "baseline",
              "-level", "3.0", "-pix_fmt", "yuv420p", "-movflags", "+faststart",
              "-max_muxing_queue_size", "1024">>
       [] fmt = <<"m4v">> ->
            <<"-c:v", "libx264", "-preset", "medium", "-crf", "23", "-profile:v", "high",
              "-level", "4.1">>
       [] fmt \in {<<"3gp">>, <<"3g2">>} ->
            <<"-c:v", "libx264", "-preset", "medium", "-crf", "28", "-profile:v", "baseline",
              "-level", "3.0", "-r", "20", "-s", "352x288", "-pix_fmt", "yuv420p",
              "-maxrate", "400k">>
       [] fmt = <<"avi">> ->
            <<"-c:v", "libx264", "-preset", "medium", "-crf", "23", "-pix_fmt", "yuv420p">>
       [] fmt = <<"mov">> ->
            <<"-c:v", "libx264", "-preset", "medium", "-crf", "23", "-profile:v", "high",
              "-level", "4.1", "-pix_fmt", "yuv420p">>
       [] fmt = <<"wmv">> ->
            <<"-c:v", "wmv2", "-b:v", "2M", "-maxrate", "2M", "-bufsize", "4M">>
       [] fmt \in {<<"mkv">>, <<"flv">>} ->
            <<"-c:v", "libx264", "-preset", "medium", "-crf", "23", "-pix_fmt", "yuv420p">>
       [] fmt = <<"ogv">> -> <<"-c:v", "libtheora", "-q:v", "7">>
       [] fmt \in {<<"h264">>, <<"264">>} ->
            <<"-c:v", "libx264", "-preset", "medium", "-crf", "23", "-pix_fmt", "yuv420p">>
       [] fmt \in {<<"hevc">>, <<"265">>} ->
            <<"-c:v", "libx265", "-preset", "medium", "-crf", "28", "-pix_fmt", "yuv420p">>
       [] OTHER ->
            buildVideoCodecCommand(format, IF format = <<"webm">> THEN VIDEO_CODEC_PRESETS.vp8
                                           ELSE VIDEO_CODEC_PRESETS.h264)

\* the switch of buildFFmpegCommand for an audio source
AudioCodecCmd(format) ==
  LET fmt == toLowerCase(format)
  IN CASE fmt = <<"wma">> -> <<"-c:a", "wmav2", "-b:a", "192k">>
       [] fmt = <<"flac">> -> <<"-c:a", "flac", "-compression_level", "8">>
       [] fmt = <<"m4a">> -> <<"-c:a", "aac", "-b:a", "192k", "-profile:a", "aac_low">>
       [] OTHER -> buildAudioCodecCommand(format)

\* buildFFmpegCommand(format, type, input, output, memSettings)
buildFFmpegCommand(format, type, input, output, memSettings) ==
  LET baseCmd == Args(<<"-nostdin", "-threads", ToString(memSettings.threads)>>)
                   \o <<<<"-i">>, input>>
      codecCmd == IF startsWith(type, <<"video", "/">>) THEN VideoCodecCmd(format)
                  ELSE IF startsWith(type, <<"audio", "/">>) THEN AudioCodecCmd(format)
                  ELSE <<>>
  IN baseCmd \o Args(codecCmd) \o <<<<"-y">>, output>>

\* the command handleImageConversion builds (the raw target with the default
\* dimensions)
ImageCommand(format, input, output, memSettings) ==
  LET fmt == toLowerCase(format)
  IN Args(<<"-nostdin", "-threads", ToString(memSettings.threads)>>)
       \o <<<<"-i">>, input>>
       \o Args(<<"-compression_level", "7", "-bufsize">>)
       \o <<<<ToString(memSettings.bufsize), "K">>>>
       \o Args(CASE fmt \in {<<"tiff">>, <<"tif">>} -> <<"-compression_algo", "lzw">>
                 [] fmt = <<"bmp">> -> <<"-pix_fmt", "rgb24">>
                 [] fmt = <<"gif">> ->
                      <<"-filter_complex",
                        "[0:v] split [a][b];[a] palettegen [p];[b][p] paletteuse",
                        "-max_muxing_queue_size", "1024">>
                 [] fmt = <<"raw">> ->
                      <<"-f", "rawvideo", "-pix_fmt", "rgb24", "-s", "1920x1080">>
                 [] OTHER -> <<>>)
       \o <<output>>

\* ------------------------------------------------------------------ records
IdleSlot ==
  [pc |-> "idle", s |-> 0, k |-> 0, file |-> 0, input |-> <<>>, output |-> <<>>,
   path |-> "", after |-> "", url |-> 0, err |-> "", memSettings |-> NoSettings,
   ffmpegCmd |-> <<>>]

NoCall ==
  [st |-> "none", kind |-> "none", input |-> <<>>, arr |-> <<>>, sorted |-> <<>>,
   i |-> 0, results |-> <<>>]

Event(c, k, e) == [c |-> c, k |-> k, e |-> e]

Request(c, s, k, op, name, inp) ==
  [c |-> c, s |-> s, k |-> k, op |-> op, name |-> name, inp |-> inp, waited |-> TRUE]

\* ------------------------------------------------------------------- engine
Exists(name) == name \in DOMAIN fs

FsWrite(f, name, data) ==
  [n \in (DOMAIN f) \cup {name} |-> IF n = name THEN data ELSE f[n]]

FsDelete(f, name) == [n \in (DOMAIN f) \ {name} |-> f[n]]

EmptyFs == [n \in {} |-> 0]

\* the request the engine settles next, for the awaiting activation (c, s)
AtHead(c, s, op) ==
  /\ queue # <<>>
  /\ Head(queue).c = c
  /\ Head(queue).s = s
  /\ Head(queue).op = op
  /\ Head(queue).waited

\* ------------------------------------------------------------- convertFile
ErrNoTarget == "Output format 'to' is undefined"
ErrNoData == "File data is undefined"
ErrTooBig == "File size exceeds maximum limit of 2000MB"
ErrEngine == "engine error"
ErrCanvas == "Failed to convert image"

PreconditionNoTargetCheck(f) ==
  IF ~f.fileData.present THEN ErrNoData
  ELSE IF f.fileData.size > MAX_FILE_SIZE THEN ErrTooBig
  ELSE ""

PreconditionNoSizeCheck(f) ==
  IF f.to = <<>> THEN ErrNoTarget
  ELSE IF ~f.fileData.present THEN ErrNoData
  ELSE ""

\* the throws at the head of convertFile; "" when none is taken
Precondition(f) ==
  IF f.to = <<>> THEN ErrNoTarget
  ELSE IF ~f.fileData.present THEN ErrNoData
  ELSE IF f.fileData.size > MAX_FILE_SIZE THEN ErrTooBig
  ELSE ""

InputName(f) == getFileExtension(f.name)
OutputName(f) == removeFileExtension(f.name) \o <<".">> \o f.to

IsImage(f) == startsWith(f.type, <<"image", "/">>)
UsesCanvas(f) ==
  IsImage(f) /\ (HasFormat(VECTOR_FORMATS, f.to) \/ HasFormat(WEB_FRIENDLY_IMAGE_FORMATS, f.to))

\* cleanupResources: both deletes are issued at once
CleanupRequests(c, sl) ==
  << Request(c, sl.s, sl.k, "delete", sl.input, <<>>),
     Request(c, sl.s, sl.k, "delete", sl.output, <<>>) >>

CleanupEvents(c, sl) == << Event(c, sl.k, "delete"), Event(c, sl.k, "delete") >>

\* where convertFile goes once cleanupResources has returned
AfterCleanup(sl) ==
  CASE sl.after = "fetch" -> [sl EXCEPT !.pc = "fetch", !.after = ""]
    [] sl.after = "resolve" -> [sl EXCEPT !.pc = "resolved", !.after = ""]
    [] OTHER -> [sl EXCEPT !.pc = "rejected", !.after = ""]

\* the error a rejected deleteFile carries
ErrCleanup == "cleanup"

CleanupErrorEscapes(sl) ==
  [sl EXCEPT !.pc = "rejected", !.after = "", !.err = ErrCleanup, !.url = 0]

\* catch {} of cleanupResources: a rejected delete is ignored and
\* cleanupResources returns normally
IgnoreCleanupError(sl) == AfterCleanup(sl)

\* the catch block of convertFile
Catch(sl, err) == [sl EXCEPT !.pc = "clean1", !.after = "reject", !.err = err, !.url = 0]

\* ------------------------------------------------------------ convertFiles
ChunkLen(cr) ==
  IF Len(cr.sorted) - cr.i >= CHUNK_SIZE THEN CHUNK_SIZE
  ELSE IF Len(cr.sorted) - cr.i > 0 THEN Len(cr.sorted) - cr.i ELSE 0

MayStartParallel(sl, s) == TRUE

\* for (const file of chunk) { await convertFile(...) }: the next job is
\* taken up only when the jobs before it in the chunk are dealt with
MayStart(sl, s) == \A t \in 1..(s - 1) : sl[t].pc = "done"

Startable(cr, sl, s) ==
  /\ cr.st = "chunk"
  /\ s <= ChunkLen(cr)
  /\ sl[s].pc = "idle"
  /\ MayStart(sl, s)
  /\ \A t \in 1..(s - 1) : sl[t].pc # "idle"

\* whether the invocation has code to run before it next waits
SyncWork(cr, sl) ==
  \/ cr.st = "loop"
  \/ cr.st = "returned" /\ cr.kind # "lib"
  \/ cr.st = "threw" /\ cr.kind # "lib"
  \/ /\ cr.st = "chunk"
     /\ \E s \in Slots : sl[s].pc \in {"resolved", "rejected"} \/ Startable(cr, sl, s)

Log(evs) == IF observe THEN trace \o evs ELSE trace

\* ----------------------------------------------------- steps of convertFile
\* one step of the activation (c, s): its new record, the requests it posts,
\* the filesystem and counters it leaves, and the events it shows
SlotStep(c, s, ns, nq, nfs, nfaults, nurls, evs) ==
  /\ slot' = [slot EXCEPT ![c][s] = ns]
  /\ queue' = nq
  /\ fs' = nfs
  /\ faults' = nfaults
  /\ urls' = nurls
  /\ trace' = Log(evs)
  /\ running' = IF SyncWork(call[c], slot'[c]) THEN c ELSE 0
  /\ UNCHANGED <<heap, call, observe, pageVars, hostVars>>

ProbeFile == <<"ffmpeg-output", ".", "txt">>

MainExec(c, sl) == Request(c, sl.s, sl.k, "exec", sl.output, sl.input)

\* the argument list of the conversion command of an activation
Command(sl, f) ==
  IF sl.path = "img" THEN ImageCommand(f.to, sl.input, sl.output, sl.memSettings)
  ELSE buildFFmpegCommand(toLowerCase(f.to), f.type, sl.input, sl.output, sl.memSettings)
ProbeExec(c, sl) == Request(c, sl.s, sl.k, "exec", <<>>, sl.input)

\* convertFile up to its first await
StartJob(c, s) ==
  /\ running = c
  /\ Startable(call[c], slot[c], s)
  /\ LET cr == call[c]
         k == cr.i + s
         id == cr.sorted[k]
         f == heap[id]
         pre == Precondition(f)
         sl == [IdleSlot EXCEPT !.s = s, !.k = k, !.file = id,
                                !.input = InputName(f), !.output = OutputName(f),
                                !.memSettings = calculateMemorySettings(f.fileData.size,
                                                                        jsHeapSizeLimit)]
     IN IF pre # ""
        THEN SlotStep(c, s, [sl EXCEPT !.pc = "rejected", !.err = pre, !.input = <<>>,
                                       !.output = <<>>, !.memSettings = NoSettings],
                      queue, fs, faults, urls, <<Event(c, k, "start")>>)
        ELSE IF UsesCanvas(f)
        THEN SlotStep(c, s, [sl EXCEPT !.pc = "canvas", !.path = "canvas"],
                      queue, fs, faults, urls, <<Event(c, k, "start")>>)
        ELSE IF IsImage(f)
        THEN SlotStep(c, s, [sl EXCEPT !.pc = "fetch", !.path = "img"],
                      queue, fs, faults, urls, <<Event(c, k, "start")>>)
        ELSE SlotStep(c, s, [sl EXCEPT !.pc = "clean1", !.path = "av", !.after = "fetch"],
                      queue \o CleanupRequests(c, sl), fs, faults, urls,
                      <<Event(c, k, "start")>> \o CleanupEvents(c, sl))

\* deleteFile(input) of cleanupResources settles; when it rejects,
\* Promise.all rejects at once and deleteFile(output) is left unawaited
Clean1(c, s) ==
  /\ running = 0
  /\ slot[c][s].pc = "clean1"
  /\ AtHead(c, s, "delete")
  /\ LET sl == slot[c][s]
         e == Head(queue)
     IN IF Exists(e.name)
        THEN SlotStep(c, s, [sl EXCEPT !.pc = "clean2"], Tail(queue),
                      FsDelete(fs, e.name), faults, urls, <<>>)
        ELSE SlotStep(c, s, IgnoreCleanupError(sl),
                      <<[queue[2] EXCEPT !.waited = FALSE]>> \o SubSeq(queue, 3, Len(queue)),
                      fs, faults, urls, <<>>)

\* deleteFile(output) of cleanupResources settles
Clean2(c, s) ==
  /\ running = 0
  /\ slot[c][s].pc = "clean2"
  /\ AtHead(c, s, "delete")
  /\ SlotStep(c, s, AfterCleanup(slot[c][s]), Tail(queue),
              FsDelete(fs, Head(queue).name), faults, urls, <<>>)

\* the engine settles a request nobody awaits any more
EngineDrop ==
  /\ running = 0
  /\ queue # <<>>
  /\ ~Head(queue).waited
  /\ queue' = Tail(queue)
  /\ fs' = FsDelete(fs, Head(queue).name)
  /\ UNCHANGED <<heap, call, slot, faults, running, urls, trace, observe, pageVars, hostVars>>

\* fetchFile(fileData) resolves and writeFile(input, ...) is issued
Fetch(c, s) ==
  /\ running = 0
  /\ slot[c][s].pc = "fetch"
  /\ LET sl == slot[c][s]
     IN SlotStep(c, s, [sl EXCEPT !.pc = "write"],
                 Append(queue, Request(c, s, sl.k, "write", sl.input, <<>>)),
                 fs, faults, urls, <<Event(c, sl.k, "write")>>)

\* writeFile settles
Write(c, s) ==
  /\ running = 0
  /\ slot[c][s].pc = "write"
  /\ AtHead(c, s, "write")
  /\ LET sl == slot[c][s]
         f == heap[sl.file]
         raw == sl.path = "img" /\ toLowerCase(f.to) = <<"raw">>
     IN \/ SlotStep(c, s, [sl EXCEPT !.pc = IF raw THEN "probe" ELSE "exec",
                                     !.ffmpegCmd = IF raw THEN <<>> ELSE Command(sl, f)],
                    Append(Tail(queue), IF raw THEN ProbeExec(c, sl) ELSE MainExec(c, sl)),
                    FsWrite(fs, sl.input, [kind |-> "src", file |-> sl.file]),
                    faults, urls, <<Event(c, sl.k, "exec")>>)
        \/ /\ faults < MaxFaults
           /\ SlotStep(c, s, Catch(sl, ErrEngine),
                       Tail(queue) \o CleanupRequests(c, sl), fs, faults + 1, urls,
                       CleanupEvents(c, sl))

\* the dimension probe of the raw target settles (its failure is caught)
Probe(c, s) ==
  /\ running = 0
  /\ slot[c][s].pc = "probe"
  /\ AtHead(c, s, "exec")
  /\ LET sl == slot[c][s]
     IN \/ SlotStep(c, s, [sl EXCEPT !.pc = "probe_read"],
                    Append(Tail(queue), Request(c, s, sl.k, "read", ProbeFile, <<>>)),
                    fs, faults, urls, <<Event(c, sl.k, "read")>>)
        \/ /\ faults < MaxFaults
           /\ SlotStep(c, s, [sl EXCEPT !.pc = "exec",
                                        !.ffmpegCmd = Command(sl, heap[sl.file])],
                       Append(Tail(queue), MainExec(c, sl)),
                       fs, faults + 1, urls, <<Event(c, sl.k, "exec")>>)

\* readFile('ffmpeg-output.txt') settles (its failure is caught)
ProbeRead(c, s) ==
  /\ running = 0
  /\ slot[c][s].pc = "probe_read"
  /\ AtHead(c, s, "read")
  /\ LET sl == slot[c][s]
     IN SlotStep(c, s, [sl EXCEPT !.pc = "exec", !.ffmpegCmd = Command(sl, heap[sl.file])],
                 Append(Tail(queue), MainExec(c, sl)),
                 fs, faults, urls, <<Event(c, sl.k, "exec")>>)

\* the conversion command settles: it wrote the output, or it ended without
\* one, or it failed (possibly leaving a partial output)
Exec(c, s) ==
  /\ running = 0
  /\ slot[c][s].pc = "exec"
  /\ AtHead(c, s, "exec")
  /\ LET sl == slot[c][s]
         e == Head(queue)
         hasInput == Exists(e.inp)
     IN \E outcome \in {"ok", "badexit", "throw", "partial"} :
          /\ outcome = "ok" => hasInput
          /\ outcome = "partial" => hasInput
          /\ (outcome # "ok" /\ hasInput) => faults < MaxFaults
          /\ LET nfaults == IF outcome # "ok" /\ hasInput THEN faults + 1 ELSE faults
                 nfs == IF outcome \in {"ok", "partial"}
                        THEN FsWrite(fs, e.name, [kind |-> IF outcome = "ok" THEN "out" ELSE "partial",
                                                  file |-> sl.file])
                        ELSE fs
             IN IF outcome \in {"ok", "badexit"}
                THEN SlotStep(c, s, [sl EXCEPT !.pc = "read"],
                              Append(Tail(queue), Request(c, s, sl.k, "read", sl.output, <<>>)),
                              nfs, nfaults, urls, <<Event(c, sl.k, "read")>>)
                ELSE SlotStep(c, s, Catch(sl, ErrEngine),
                              Tail(queue) \o CleanupRequests(c, sl), nfs, nfaults, urls,
                              CleanupEvents(c, sl))

ReadNoCleanup(c, s) ==
  /\ running = 0
  /\ slot[c][s].pc = "read"
  /\ AtHead(c, s, "read")
  /\ LET sl == slot[c][s]
     IN IF Exists(sl.output)
        THEN SlotStep(c, s, [sl EXCEPT !.pc = "resolved", !.url = urls + 1],
                      Tail(queue), fs, faults, urls + 1, <<>>)
        ELSE SlotStep(c, s, Catch(sl, ErrEngine),
                      Tail(queue) \o CleanupRequests(c, sl), fs, faults, urls,
                      CleanupEvents(c, sl))

\* readFile(output) settles; the blob gets its object URL
Read(c, s) ==
  /\ running = 0
  /\ slot[c][s].pc = "read"
  /\ AtHead(c, s, "read")
  /\ LET sl == slot[c][s]
     IN IF Exists(sl.output)
        THEN IF sl.path = "av"
             THEN SlotStep(c, s, [sl EXCEPT !.pc = "clean1", !.after = "resolve", !.url = urls + 1],
                           Tail(queue) \o CleanupRequests(c, sl), fs, faults, urls + 1,
                           CleanupEvents(c, sl))
             ELSE SlotStep(c, s, [sl EXCEPT !.pc = "resolved", !.url = urls + 1],
                           Tail(queue), fs, faults, urls + 1, <<>>)
        ELSE SlotStep(c, s, Catch(sl, ErrEngine),
                      Tail(queue) \o CleanupRequests(c, sl), fs, faults, urls,
                      CleanupEvents(c, sl))

\* convertImage settles (the canvas path)
Canvas(c, s) ==
  /\ running = 0
  /\ slot[c][s].pc = "canvas"
  /\ LET sl == slot[c][s]
     IN \/ SlotStep(c, s, [sl EXCEPT !.pc = "resolved", !.url = urls + 1],
                    queue, fs, faults, urls + 1, <<>>)
        \/ /\ faults < MaxFaults
           /\ SlotStep(c, s, Catch(sl, ErrCanvas),
                       queue \o CleanupRequests(c, sl), fs, faults + 1, urls,
                       CleanupEvents(c, sl))

\* ---------------------------------------------------- steps of convertFiles
\* the progress callbacks of handleFileConversion and handleRetry: find the
\* job by identity in the caller's array, replace it there by an updated
\* copy, and set the page's list to a copy of that array
FindIndex(arr, id) ==
  IF \E j \in 1..Len(arr) : arr[j] = id
  THEN CHOOSE j \in 1..Len(arr) : arr[j] = id /\ \A m \in 1..(j - 1) : arr[m] # id
  ELSE 0

PageProgress(h, arr, id, res) ==
  LET fileIndex == FindIndex(arr, id)
      old == h[arr[fileIndex]]
      new == IF res.error # ""
             THEN [old EXCEPT !.isConverted = FALSE, !.isConverting = FALSE,
                              !.isErrored = TRUE, !.error = res.error]
             ELSE [old EXCEPT !.isConverted = TRUE, !.isConverting = FALSE,
                              !.url = res.url, !.output = res.output]
  IN IF fileIndex = 0
     THEN [heap |-> h, arr |-> arr, found |-> FALSE]
     ELSE [heap |-> Append(h, new), arr |-> [arr EXCEPT ![fileIndex] = Len(h) + 1],
           found |-> TRUE]

PushResultTwice(cr, id, res) ==
  LET entry == [file |-> id, url |-> res.url, output |-> res.output, error |-> res.error]
  IN [cr EXCEPT !.results = @ \o <<entry, entry>>]

\* results.push({ file, result })
PushResult(cr, id, res) ==
  [cr EXCEPT !.results = Append(@, [file |-> id, url |-> res.url,
                                    output |-> res.output, error |-> res.error])]

RethrowJobError(cr, id, res) == [cr EXCEPT !.st = "loop", !.i = @ + CHUNK_SIZE]

\* the catch around convertFile: the failure becomes the job's result
CatchJobError(cr, id, res) == PushResult(cr, id, res)

NotifiesOnSuccessOnly(sl) == sl.pc = "resolved"

\* if (onProgress) onProgress(file, ...), on both paths
Notifies(sl) == TRUE

ChunkErrorEscapes(cr) == [cr EXCEPT !.st = "threw"]

\* the catch around the chunk: log, go on with the next chunk
OnChunkError(cr) == [cr EXCEPT !.st = "loop", !.i = @ + CHUNK_SIZE]

\* the jobs of the chunk convertFiles is at
ChunkJobs(cr) == {cr.sorted[cr.i + s] : s \in 1..ChunkLen(cr)}

ChunkJobsMarkedErrored(h, cr) ==
  [id \in DOMAIN h |-> IF id \in ChunkJobs(cr)
                       THEN [h[id] EXCEPT !.isErrored = TRUE, !.isConverting = FALSE]
                       ELSE h[id]]

\* the catch around the chunk only logs: the job descriptors stay as they are
ChunkJobsAfterError(h, cr) == h

SortedInPlace(cr, sorted) == IF Len(cr.arr) = Len(sorted) THEN sorted ELSE cr.arr

\* [...files].sort(...): the sort works on a copy, the caller's array keeps
\* its elements and their order
CallerListAfterSort(cr, sorted) == cr.arr

\* convertFiles up to the loop: results = [], sortedFiles = sorted copy
Begin(c) ==
  /\ running = c
  /\ call[c].st = "called"
  /\ call' = [call EXCEPT ![c] = [@ EXCEPT !.st = "loop", !.results = <<>>, !.i = 0,
                                         !.sorted = SortFiles(heap, call[c].input),
                                         !.arr = CallerListAfterSort(
                                                   call[c], SortFiles(heap, call[c].input))]]
  /\ UNCHANGED <<heap, slot, engineVars, running, urls, trace, observe, pageVars, hostVars>>

\* the for statement: issue the engine-clear exec of the next chunk, or return
LoopHead(c) ==
  /\ running = c
  /\ call[c].st = "loop"
  /\ LET cr == call[c]
     IN IF cr.i < Len(cr.sorted)
        THEN /\ call' = [call EXCEPT ![c].st = "clear"]
             /\ slot' = [slot EXCEPT ![c] = [s \in Slots |-> IdleSlot]]
             /\ queue' = Append(queue, Request(c, 0, 0, "exec", <<>>, <<>>))
             /\ trace' = Log(<<Event(c, cr.i, "clear")>>)
             /\ running' = 0
        ELSE /\ call' = [call EXCEPT ![c].st = "returned"]
             /\ slot' = [slot EXCEPT ![c] = [s \in Slots |-> IdleSlot]]
             /\ running' = IF cr.kind = "lib" THEN 0 ELSE c
             /\ UNCHANGED <<queue, trace>>
  /\ UNCHANGED <<heap, fs, faults, urls, observe, pageVars, hostVars>>

\* the engine-clear exec settles
ClearSettled(c) ==
  /\ running = 0
  /\ call[c].st = "clear"
  /\ AtHead(c, 0, "exec")
  /\ queue' = Tail(queue)
  /\ \/ /\ call' = [call EXCEPT ![c].st = "chunk"]
        /\ faults' = faults
        /\ heap' = heap
        /\ trace' = Log(<<Event(c, call[c].i, "cleared")>>)
     \/ /\ faults < MaxFaults
        /\ call' = [call EXCEPT ![c] = OnChunkError(call[c])]
        /\ faults' = faults + 1
        /\ heap' = ChunkJobsAfterError(heap, call[c])
        /\ trace' = Log(<<Event(c, call[c].i, "clearfailed")>>)
  /\ running' = IF SyncWork(call'[c], slot[c]) THEN c ELSE 0
  /\ UNCHANGED <<slot, fs, urls, observe, pageVars, hostVars>>

\* the await of convertFile returns or throws: push the result, set the
\* error flags on failure, call onProgress, go on with the loop
JobSettled(c, s) ==
  /\ running = c
  /\ call[c].st = "chunk"
  /\ slot[c][s].pc \in {"resolved", "rejected"}
  /\ LET cr == call[c]
         sl == slot[c][s]
         ok == sl.pc = "resolved"
         res == IF ok THEN [url |-> sl.url, output |-> sl.output, error |-> ""]
                ELSE [url |-> 0, output |-> <<>>, error |-> sl.err]
         cr1 == IF ok THEN PushResult(cr, sl.file, res) ELSE CatchJobError(cr, sl.file, res)
         aborted == cr1.st # "chunk"
         h1 == IF ok \/ aborted THEN heap
               ELSE [heap EXCEPT ![sl.file] = [@ EXCEPT !.isErrored = TRUE,
                                                        !.isConverted = FALSE,
                                                        !.isConverting = FALSE]]
         notify == ~aborted /\ Notifies(sl)
         paged == notify /\ cr.kind # "lib"
         cb == PageProgress(h1, cr1.arr, sl.file, res)
         nsl == [slot[c] EXCEPT ![s].pc = "done"]
         chunkDone == \A t \in 1..ChunkLen(cr) : nsl[t].pc = "done"
         cr2 == [cr1 EXCEPT !.arr = IF paged THEN cb.arr ELSE @]
         cr3 == IF ~aborted /\ chunkDone
                THEN [cr2 EXCEPT !.i = @ + CHUNK_SIZE, !.st = "loop"]
                ELSE cr2
     IN /\ heap' = IF paged THEN cb.heap ELSE h1
        /\ call' = [call EXCEPT ![c] = cr3]
        /\ slot' = [slot EXCEPT ![c] = nsl]
        /\ files' = IF paged /\ cb.found THEN cb.arr ELSE files
        /\ trace' = Log(<<Event(c, sl.k, IF ok THEN "resolve" ELSE "reject")>>
                        \o IF notify THEN <<Event(c, sl.k, "progress")>> ELSE <<>>)
        /\ running' = IF SyncWork(cr3, nsl) THEN c ELSE 0
  /\ UNCHANGED <<engineVars, urls, observe, isFFMPEGLoaded, isConversionCompleted,
                 conversionError, hostVars>>

\* ------------------------------------------- convertFiles on a given batch
AudioName == <<"a", ".", "mp3">>
ImageName == <<"c", ".", "png">>
VideoName == <<"v", ".", "mp4">>
AudioType == <<"audio", "/", "mpeg">>
ImageType == <<"image", "/", "png">>
VideoType == <<"video", "/", "mp4">>

\* the jobs a batch is made of: an audio job, and a smaller video job without
\* target; two audio jobs of a batch have the same size
BatchSamples ==
  { NewFile(AudioName, AudioType, Data(2), <<"wav">>),
    NewFile(VideoName, VideoType, Data(1), <<>>) }

Quiet ==
  /\ slot = [c \in Calls |-> [s \in Slots |-> IdleSlot]]
  /\ queue = <<>>
  /\ fs = EmptyFs
  /\ faults = 0
  /\ urls = 0
  /\ trace = <<>>
  /\ files = <<>>
  /\ isFFMPEGLoaded = TRUE
  /\ isConversionCompleted = FALSE
  /\ conversionError = ""
  /\ loads = 1
  /\ revoked = {}

LibCall(n) ==
  [c \in Calls |-> IF c = 1
                   THEN [NoCall EXCEPT !.st = "called", !.kind = "lib",
                                       !.input = [j \in 1..n |-> j],
                                       !.arr = [j \in 1..n |-> j]]
                   ELSE NoCall]

Init ==
  /\ \E n \in 0..MaxFiles : /\ heap \in [1..n -> BatchSamples]
                            /\ call = LibCall(n)
  /\ running = 1
  /\ observe = TRUE
  /\ jsHeapSizeLimit = ChromeHeapLimit
  /\ Quiet

Next ==
  \/ \E c \in Calls : Begin(c)
  \/ \E c \in Calls : LoopHead(c)
  \/ \E c \in Calls : ClearSettled(c)
  \/ \E c \in Calls, s \in Slots : StartJob(c, s)
  \/ \E c \in Calls, s \in Slots : Clean1(c, s)
  \/ \E c \in Calls, s \in Slots : Clean2(c, s)
  \/ EngineDrop
  \/ \E c \in Calls, s \in Slots : Fetch(c, s)
  \/ \E c \in Calls, s \in Slots : Write(c, s)
  \/ \E c \in Calls, s \in Slots : Exec(c, s)
  \/ \E c \in Calls, s \in Slots : Read(c, s)
  \/ \E c \in Calls, s \in Slots : JobSettled(c, s)

Spec == Init /\ [][Next]_vars

\* ------------------------------------------------ a job converted twice
FileSamples ==
  { NewFile(nt[1], nt[2], d, to) :
      nt \in {<<AudioName, AudioType>>, <<VideoName, VideoType>>, <<ImageName, ImageType>>},
      d \in {NoData, Data(1), Data(10 * MiB), Data(50 * MiB), Data(50 * MiB + 1),
             Data(100 * MiB), Data(MAX_FILE_SIZE), Data(MAX_FILE_SIZE + 1),
             Data(TwoGiB), Data(TwoGiB + 1)},
      to \in {<<>>, <<"wav">>, <<"bmp">>, <<"raw">>, <<"png">>, <<"PNG">>, <<"svg">>} }

InitFile ==
  /\ \E f \in FileSamples : heap = <<f>>
  /\ call = [c \in Calls |-> IF c = 1
                             THEN [NoCall EXCEPT !.st = "called", !.kind = "lib",
                                                 !.input = <<1, 1>>, !.arr = <<1, 1>>]
                             ELSE NoCall]
  /\ running = 1
  /\ observe = TRUE
  /\ jsHeapSizeLimit \in HeapLimits
  /\ Quiet

NextFile ==
  \/ Next
  \/ \E c \in Calls, s \in Slots : Probe(c, s)
  \/ \E c \in Calls, s \in Slots : ProbeRead(c, s)
  \/ \E c \in Calls, s \in Slots : Canvas(c, s)

SpecFile == InitFile /\ [][NextFile]_vars

\* ------------------------------- an audio or video job for every target
VideoTargets ==
  {"mp4", "m4v", "mp4v", "3gp", "3g2", "avi", "mov", "wmv", "mkv", "flv", "ogv", "webm",
   "h264", "264", "hevc", "265"}

AudioTargets == {"mp3", "wav", "ogg", "aac", "wma", "flac", "m4a"}

CommandSamples ==
  { NewFile(nt[1], nt[2], d, <<to>>) :
      nt \in {<<AudioName, AudioType>>, <<VideoName, VideoType>>},
      d \in {Data(1), Data(100 * MiB)},
      to \in VideoTargets \cup AudioTargets \cup {"WEBM"} }

InitCommand ==
  /\ \E f \in CommandSamples : heap = <<f>>
  /\ call = [c \in Calls |-> IF c = 1
                             THEN [NoCall EXCEPT !.st = "called", !.kind = "lib",
                                                 !.input = <<1, 1>>, !.arr = <<1, 1>>]
                             ELSE NoCall]
  /\ running = 1
  /\ observe = TRUE
  /\ jsHeapSizeLimit = ChromeHeapLimit
  /\ Quiet

SpecCommand == InitCommand /\ [][Next]_vars

\* ------------------------------------------------------------------ page
MaxPageFiles == 2

\* uploads are taken while the job descriptors created so far, the dropped
\* ones included, are at most this many
MaxObjects == 2

AllFailedMessage ==
  "Failed to convert all files. Please try with smaller files or a different format."

\* what the user drops: files the dropzone accepts (a media type, a size of
\* at most MAX_FILE_SIZE)
DropSamples ==
  { NewFile(AudioName, AudioType, Data(2), <<>>),
    NewFile(ImageName, ImageType, Data(1), <<>>) }

\* the formats the picker offers, per source type
Offered(f) == IF IsImage(f) THEN {<<"bmp">>} ELSE {<<"wav">>}

\* the next invocation record not used yet
FreeCall(c) == call[c].st = "none" /\ \A d \in 1..(c - 1) : call[d].st # "none"

LoadWheneverNotLoaded ==
  /\ running = 0
  /\ ~isFFMPEGLoaded
  /\ loads' = loads + 1
  /\ isFFMPEGLoaded' = TRUE
  /\ UNCHANGED <<heap, call, slot, engineVars, running, urls, trace, observe,
                 files, isConversionCompleted, conversionError, jsHeapSizeLimit, revoked>>

\* load(), run once by the mount effect: loadFfmpeg resolves
Load ==
  /\ running = 0
  /\ loads = 0
  /\ loads' = loads + 1
  /\ isFFMPEGLoaded' = TRUE
  /\ UNCHANGED <<heap, call, slot, engineVars, running, urls, trace, observe,
                 files, isConversionCompleted, conversionError, jsHeapSizeLimit, revoked>>

\* handleUpload(files) with the dropped files drawn from a set of samples:
\* the dropzone is shown while the list is empty
UploadUpTo(samples, bound) ==
  /\ running = 0
  /\ files = <<>>
  /\ \E n \in 1..MaxPageFiles : \E dropped \in [1..n -> samples] :
       /\ Len(heap) + n <= bound
       /\ heap' = heap \o dropped
       /\ files' = [j \in 1..n |-> Len(heap) + j]
  /\ UNCHANGED <<call, slot, engineVars, running, urls, trace, observe,
                 isFFMPEGLoaded, isConversionCompleted, conversionError, hostVars>>

Upload(samples) == UploadUpTo(samples, MaxObjects)

HandleUpload == Upload(DropSamples)

\* the card shows the format picker when the job is neither converting,
\* converted nor errored
ShowsPicker(f) == ~f.isConverting /\ ~(f.isConverted /\ ~f.isErrored) /\ ~f.isErrored

\* the card shows the Retry button
ShowsRetry(f) == ~f.isConverting /\ ~(f.isConverted /\ ~f.isErrored) /\ f.isErrored

\* handleTypeChange(index, value)
HandleTypeChange(index) ==
  /\ running = 0
  /\ index \in 1..Len(files)
  /\ ShowsPicker(heap[files[index]])
  /\ \E value \in Offered(heap[files[index]]) :
       /\ value # heap[files[index]].to
       /\ heap' = Append(heap, [heap[files[index]] EXCEPT !.to = value])
       /\ files' = [files EXCEPT ![index] = Len(heap) + 1]
  /\ UNCHANGED <<call, slot, engineVars, running, urls, trace, observe,
                 isFFMPEGLoaded, isConversionCompleted, conversionError, hostVars>>

\* the Convert Files button is shown and enabled
ConvertEnabled ==
  /\ files # <<>>
  /\ ~isConversionCompleted
  /\ isFFMPEGLoaded
  /\ \A j \in 1..Len(files) : heap[files[j]].to # <<>>

\* handleFileConversion up to the call of convertFiles
HandleFileConversion(c) ==
  /\ running = 0
  /\ FreeCall(c)
  /\ ConvertEnabled
  /\ LET n == Len(files)
         tmpFiles == [j \in 1..n |-> Len(heap) + j]
     IN /\ heap' = heap \o [j \in 1..n |-> [heap[files[j]] EXCEPT !.isConverting = TRUE,
                                                                  !.isErrored = FALSE]]
        /\ files' = tmpFiles
        /\ call' = [call EXCEPT ![c] = [NoCall EXCEPT !.st = "called", !.kind = "batch",
                                                      !.input = tmpFiles, !.arr = tmpFiles]]
  /\ conversionError' = ""
  /\ running' = c
  /\ UNCHANGED <<slot, engineVars, urls, trace, observe, isFFMPEGLoaded,
                 isConversionCompleted, hostVars>>

\* handleFileConversion after the await of convertFiles (its catch included)
AfterBatch(c) ==
  /\ running = c
  /\ call[c].kind = "batch"
  /\ call[c].st \in {"returned", "threw"}
  /\ LET tmpFiles == call[c].arr
         hasSuccessfulConversions == \E j \in 1..Len(tmpFiles) : heap[tmpFiles[j]].isConverted
         n == Len(tmpFiles)
     IN IF call[c].st = "returned"
        THEN /\ isConversionCompleted' = hasSuccessfulConversions
             /\ conversionError' = IF hasSuccessfulConversions THEN conversionError
                                   ELSE AllFailedMessage
             /\ UNCHANGED <<heap, files>>
        ELSE /\ conversionError' = ErrEngine
             /\ heap' = heap \o [j \in 1..n |-> [heap[tmpFiles[j]] EXCEPT
                                                   !.isConverted = FALSE,
                                                   !.isConverting = FALSE,
                                                   !.isErrored = TRUE]]
             /\ files' = [j \in 1..n |-> Len(heap) + j]
             /\ UNCHANGED isConversionCompleted
  /\ call' = [call EXCEPT ![c].st = "finished",
                          ![c].arr = IF call[c].st = "threw"
                                     THEN [j \in 1..Len(@) |-> Len(heap) + j]
                                     ELSE @]
  /\ running' = 0
  /\ UNCHANGED <<slot, engineVars, urls, trace, observe, isFFMPEGLoaded, hostVars>>

\* handleRetry(index) up to the call of convertFiles
HandleRetry(c, index) ==
  /\ running = 0
  /\ FreeCall(c)
  /\ index \in 1..Len(files)
  /\ ShowsRetry(heap[files[index]])
  /\ heap[files[index]].to # <<>>
  /\ LET fileToRetry == heap[files[index]]
         newFiles == [files EXCEPT ![index] = Len(heap) + 1]
     IN /\ heap' = Append(heap, [fileToRetry EXCEPT !.isConverting = TRUE,
                                                    !.isErrored = FALSE,
                                                    !.isConverted = FALSE,
                                                    !.url = 0, !.output = <<>>])
        /\ files' = newFiles
        /\ call' = [call EXCEPT ![c] = [NoCall EXCEPT !.st = "called", !.kind = "retry",
                                                      !.input = <<Len(heap) + 1>>,
                                                      !.arr = newFiles]]
  /\ running' = c
  /\ UNCHANGED <<slot, engineVars, urls, trace, observe, isFFMPEGLoaded,
                 isConversionCompleted, conversionError, hostVars>>

\* handleRetry after the await of convertFiles (its catch included)
AfterRetry(c) ==
  /\ running = c
  /\ call[c].kind = "retry"
  /\ call[c].st \in {"returned", "threw"}
  /\ LET newFiles == call[c].arr
         index == FindIndex(newFiles, call[c].input[1])
     IN IF call[c].st = "returned" \/ index = 0
        THEN UNCHANGED <<heap, files>>
        ELSE /\ heap' = Append(heap, [heap[newFiles[index]] EXCEPT
                                        !.isConverted = FALSE, !.isConverting = FALSE,
                                        !.isErrored = TRUE, !.error = ErrEngine])
             /\ files' = [newFiles EXCEPT ![index] = Len(heap) + 1]
  /\ call' = [call EXCEPT ![c].st = "finished"]
  /\ running' = 0
  /\ UNCHANGED <<slot, engineVars, urls, trace, observe, isFFMPEGLoaded,
                 isConversionCompleted, conversionError, hostVars>>

\* the Remove button of a card: setFiles(files.filter((_, i) => i !== index))
Remove(index) ==
  /\ running = 0
  /\ index \in 1..Len(files)
  /\ files' = SubSeq(files, 1, index - 1) \o SubSeq(files, index + 1, Len(files))
  /\ UNCHANGED <<heap, call, slot, engineVars, running, urls, trace, observe,
                 isFFMPEGLoaded, isConversionCompleted, conversionError, hostVars>>

\* the completed-batch actions (Download All, Convert More Files) are shown
ShowsCompleted == files # <<>> /\ isConversionCompleted

\* reset(), the Convert More Files button
Reset ==
  /\ running = 0
  /\ ShowsCompleted
  /\ files' = <<>>
  /\ isFFMPEGLoaded' = FALSE
  /\ isConversionCompleted' = FALSE
  /\ UNCHANGED <<heap, call, slot, engineVars, running, urls, trace, observe,
                 conversionError, hostVars>>

\* the card shows the Download button
ShowsDownload(f) == ~f.isConverting /\ f.isConverted /\ ~f.isErrored

\* the object URLs handleSingleFiledownload releases for a job
Revokes(f) == IF f.url # 0 THEN {f.url} ELSE {}

\* handleSingleFiledownload(file), the Download button of a card
HandleSingleFiledownload(index) ==
  /\ running = 0
  /\ index \in 1..Len(files)
  /\ ShowsDownload(heap[files[index]])
  /\ revoked' = revoked \cup Revokes(heap[files[index]])
  /\ UNCHANGED <<heap, call, slot, engineVars, running, urls, trace, observe,
                 pageVars, jsHeapSizeLimit, loads>>

\* the Download All button is shown
ShowsDownloadAll == ShowsCompleted /\ Len(files) > 1

\* handleDownloadAll(): every job that is not errored is downloaded
HandleDownloadAll ==
  /\ running = 0
  /\ ShowsDownloadAll
  /\ revoked' = revoked \cup UNION {Revokes(heap[files[j]]) :
                                      j \in {m \in 1..Len(files) : ~heap[files[m]].isErrored}}
  /\ UNCHANGED <<heap, call, slot, engineVars, running, urls, trace, observe,
                 pageVars, jsHeapSizeLimit, loads>>

InitPage ==
  /\ heap = <<>>
  /\ call = [c \in Calls |-> NoCall]
  /\ running = 0
  /\ observe = FALSE
  /\ slot = [c \in Calls |-> [s \in Slots |-> IdleSlot]]
  /\ queue = <<>>
  /\ fs = EmptyFs
  /\ faults = 0
  /\ urls = 0
  /\ trace = <<>>
  /\ files = <<>>
  /\ isFFMPEGLoaded = FALSE
  /\ isConversionCompleted = FALSE
  /\ conversionError = ""
  /\ jsHeapSizeLimit = ChromeHeapLimit
  /\ loads = 0
  /\ revoked = {}

NextPage ==
  \/ Load
  \/ HandleUpload
  \/ \E index \in 1..MaxPageFiles : HandleTypeChange(index)
  \/ \E c \in Calls : HandleFileConversion(c)
  \/ \E c \in Calls : AfterBatch(c)
  \/ \E c \in Calls, index \in 1..MaxPageFiles : HandleRetry(c, index)
  \/ \E c \in Calls : AfterRetry(c)
  \/ Reset
  \/ Next

SpecPage == InitPage /\ [][NextPage]_vars

\* ------------------------------------------- uploads of differently named files
UploadSamples ==
  { NewFile(name, AudioType, Data(1), <<>>) :
      name \in {AudioName, <<"song">>, <<"a", ".", "tar", ".", "gz">>, <<"a", ".">>,
                <<".", "mp3">>} }

NextUpload ==
  \/ Upload(UploadSamples)
  \/ \E index \in 1..MaxPageFiles : HandleTypeChange(index)
  \/ \E index \in 1..MaxPageFiles : Remove(index)

SpecUpload == InitPage /\ [][NextUpload]_vars

\* ------------------------------------- the page with uploads after a reset
\* uploads are taken while the job descriptors created so far are at most
\* this many: enough for a batch, a reset and a second upload with its target
MaxReloadObjects == 6

NextReload ==
  \/ Load
  \/ UploadUpTo(DropSamples, MaxReloadObjects)
  \/ \E index \in 1..MaxPageFiles : HandleTypeChange(index)
  \/ \E c \in Calls : HandleFileConversion(c)
  \/ \E c \in Calls : AfterBatch(c)
  \/ \E c \in Calls, index \in 1..MaxPageFiles : HandleRetry(c, index)
  \/ \E c \in Calls : AfterRetry(c)
  \/ Reset
  \/ Next

\* the engine serves its requests, promise continuations run and the mount
\* effect's load completes; the user's clicks are under no obligation
SpecReload ==
  /\ InitPage
  /\ [][NextReload]_vars
  /\ WF_vars(Load)
  /\ WF_vars(Next)
  /\ WF_vars(\E c \in Calls : AfterBatch(c))
  /\ WF_vars(\E c \in Calls : AfterRetry(c))

\* the page with the buttons that remove and download jobs as well
NextSession ==
  \/ NextPage
  \/ \E index \in 1..MaxPageFiles : Remove(index)
  \/ \E index \in 1..MaxPageFiles : HandleSingleFiledownload(index)
  \/ HandleDownloadAll

SpecSession == InitPage /\ [][NextSession]_vars

\* ------------------------------------------------------- reading the trace
EngineOps == {"delete", "write", "exec", "read"}

Returned(c) == call[c].st = "returned"

\* the events of invocation c
EventsOf(c) == SelectSeq(trace, LAMBDA e : e.c = c)

\* how many events of kind e the job at sorted position k has in a trace
Count(tr, k, e) == Cardinality({p \in 1..Len(tr) : tr[p].k = k /\ tr[p].e = e})

CountAll(tr, e) == Cardinality({p \in 1..Len(tr) : tr[p].e = e})

\* the positions (in the sorted batch) in the order of their events of kind e
OrderOf(tr, e) ==
  LET sel == SelectSeq(tr, LAMBDA x : x.e = e)
  IN [p \in 1..Len(sel) |-> sel[p].k]

Increasing(seq) == \A p, q \in 1..Len(seq) : p < q => seq[p] < seq[q]

ResultsFor(c, id) == {p \in 1..Len(call[c].results) : call[c].results[p].file = id}

Errored(c) == {p \in 1..Len(call[c].results) : call[c].results[p].error # ""}

BatchSize == Len(call[1].arr)

\* ------------------------------------------------------------------ claims
Chunk(k) == (k - 1) \div 2

Started(c, k) == Count(EventsOf(c), k, "start") > 0

\* the batch of claim C1: three jobs, the second one without target, the
\* other two with one, and an engine that does not fail
IsolationCase ==
  /\ BatchSize = 3
  /\ heap[call[1].arr[2]].to = <<>>
  /\ heap[call[1].arr[1]].to # <<>>
  /\ heap[call[1].arr[3]].to # <<>>
  /\ faults = 0

\* C1: a failure of convertFile for one job does not stop convertFiles: when
\* it has returned, every job of a chunk in which some job was started has
\* exactly one entry in the result list; and for a batch of three jobs whose
\* second job has no target (and an engine that does not fail) the list has
\* three entries, exactly one of them errored, namely the second job's, and
\* the other two carry an output and no error.
C1_BatchIsolation ==
  Returned(1) =>
    /\ \A k, m \in 1..BatchSize :
         (Chunk(k) = Chunk(m) /\ Started(1, k))
           => Cardinality(ResultsFor(1, call[1].sorted[m])) = 1
    /\ IsolationCase =>
         /\ Len(call[1].results) = 3
         /\ Cardinality(Errored(1)) = 1
         /\ \A p \in 1..3 :
              LET r == call[1].results[p]
              IN IF r.file = call[1].arr[2]
                 THEN r.error = ErrNoTarget /\ r.url = 0 /\ heap[r.file].isErrored
                 ELSE r.error = "" /\ r.url # 0 /\ r.output # <<>>

C1_Witness ==
  /\ Returned(1)
  /\ IsolationCase
  /\ Len(call[1].results) = 3
  /\ Cardinality(Errored(1)) = 1

\* C2: at most one exec call is in flight on the shared engine at any time,
\* also when Retry or Convert Files is clicked while a conversion is running.
C2_OneExecInFlight ==
  Cardinality({p \in 1..Len(queue) : queue[p].op = "exec"}) <= 1

\* C3: within one call of convertFiles, convertFile for a job is started, and
\* the engine-clear exec of a chunk is issued, only when every convertFile
\* started before has settled.
C3_OneJobAtATime ==
  \A c \in Calls :
    LET tr == EventsOf(c)
    IN \A p \in 1..Len(tr) :
         tr[p].e \in {"start", "clear"} =>
           Cardinality({q \in 1..(p - 1) : tr[q].e = "start"})
             = Cardinality({q \in 1..(p - 1) : tr[q].e \in {"resolve", "reject"}})

C3_Witness ==
  /\ Returned(1)
  /\ \E p \in 1..Len(trace) : trace[p].e = "start" /\ trace[p].k = 2
  /\ \E p \in 1..Len(trace) : trace[p].e = "clear" /\ trace[p].k = 2
  /\ \E p \in 1..Len(trace) : trace[p].e = "start" /\ trace[p].k = 3

\* C4 as stated: when convertFiles has returned, the progress callback has
\* been invoked exactly once for each job of the batch.
C4_OncePerJob ==
  Returned(1) => \A k \in 1..BatchSize : Count(EventsOf(1), k, "progress") = 1

\* C4, amended: the progress callback is invoked at most once per job, each
\* time right after that job's outcome was decided; when convertFiles has
\* returned it has been invoked exactly once for every job of a chunk whose
\* engine-clear exec succeeded and never for a job of a chunk whose
\* engine-clear exec failed; three times for a batch of three jobs whose
\* engine-clear execs succeed.
C4_OncePerClearedJob ==
  LET tr == EventsOf(1)
      cleared(k) == \E p \in 1..Len(tr) : tr[p].e = "cleared" /\ tr[p].k = 2 * Chunk(k)
      clearfailed(k) == \E p \in 1..Len(tr) : tr[p].e = "clearfailed" /\ tr[p].k = 2 * Chunk(k)
  IN /\ \A k \in 1..BatchSize : Count(tr, k, "progress") <= 1
     /\ \A p \in 1..Len(tr) :
          tr[p].e = "progress" =>
            p > 1 /\ tr[p - 1].k = tr[p].k /\ tr[p - 1].e \in {"resolve", "reject"}
     /\ \A p \in 1..Len(tr) :
          (tr[p].e \in {"resolve", "reject"} /\ (p < Len(tr) \/ running = 0))
            => p < Len(tr) /\ tr[p + 1].e = "progress" /\ tr[p + 1].k = tr[p].k
     /\ Returned(1) =>
          /\ \A k \in 1..BatchSize :
               /\ cleared(k) => Count(tr, k, "progress") = 1
               /\ clearfailed(k) => Count(tr, k, "progress") = 0
          /\ (BatchSize = 3 /\ CountAll(tr, "clearfailed") = 0)
               => CountAll(tr, "progress") = 3

C4_Witness ==
  /\ Returned(1)
  /\ BatchSize = 3
  /\ CountAll(trace, "progress") = 3
  /\ CountAll(trace, "reject") >= 1

\* C5: convertFiles never throws: neither a failure of convertFile for a job
\* nor a failure of the engine-clear exec leaves the call.
C5_NeverThrows == \A c \in Calls : call[c].st # "threw"

C5_Witness ==
  /\ Returned(1)
  /\ CountAll(trace, "clearfailed") >= 1
  /\ CountAll(trace, "reject") >= 1

\* C6: the order in which convertFiles works is the batch sorted by ascending
\* source size, jobs of equal size in their original order and a job without
\* source data counting as size 0; jobs are started, settled and reported to
\* the progress callback in that order.
C6_AscendingSizeOrder ==
  LET cr == call[1]
      n == Len(cr.sorted)
      tr == EventsOf(1)
      size(id) == IF heap[id].fileData.present THEN heap[id].fileData.size ELSE 0
  IN cr.st \notin {"none", "called"} =>
       /\ n = BatchSize
       /\ \A id \in 1..BatchSize : \E p \in 1..n : cr.sorted[p] = cr.arr[id]
       /\ \A p, q \in 1..n :
            p < q => /\ size(cr.sorted[p]) <= size(cr.sorted[q])
                     /\ size(cr.sorted[p]) = size(cr.sorted[q])
                          => FindIndex(cr.arr, cr.sorted[p]) < FindIndex(cr.arr, cr.sorted[q])
       /\ Increasing(OrderOf(tr, "start"))
       /\ Increasing(OrderOf(tr, "progress"))
       /\ \A p \in 1..Len(cr.results) :
            cr.results[p].file = cr.sorted[OrderOf(tr, "progress")[p]]

C6_Witness ==
  /\ Returned(1)
  /\ BatchSize >= 3
  /\ call[1].sorted # call[1].arr
  /\ \E p \in 1..(BatchSize - 1) :
       /\ SortKey(heap[call[1].sorted[p]]) = SortKey(heap[call[1].sorted[p + 1]])
       /\ SortKey(heap[call[1].sorted[p]]) > 0
  /\ CountAll(trace, "progress") = BatchSize

\* C7: the sorted batch is worked in consecutive chunks of two jobs: the
\* engine-clear exec is issued once per chunk, before the chunk's first job
\* and never between its two jobs, that is (N + 1) div 2 times for N jobs.
C7_ChunksOfTwo ==
  LET tr == EventsOf(1)
      clears == OrderOf(tr, "clear")
      lastClear(p) == CHOOSE q \in 1..(p - 1) :
                        /\ tr[q].e = "clear"
                        /\ \A m \in (q + 1)..(p - 1) : tr[m].e # "clear"
  IN /\ \A j \in 1..Len(clears) : clears[j] = 2 * (j - 1)
     /\ \A p \in 1..Len(tr) :
          tr[p].e = "start" =>
            /\ \E q \in 1..(p - 1) : tr[q].e = "clear"
            /\ tr[lastClear(p)].k = 2 * Chunk(tr[p].k)
     /\ Returned(1) => Len(clears) = (BatchSize + 1) \div 2

C7_Witness ==
  /\ Returned(1)
  /\ BatchSize = 5
  /\ CountAll(trace, "clear") = 3
  /\ CountAll(trace, "start") = 5

\* a convertFile activation has settled and convertFiles has not yet gone on
Settled(sl) == sl.pc \in {"resolved", "rejected"}

\* C8: when a call of convertFile for a job that takes the engine path has
\* settled, be it the first or the second call on that job and be it a
\* success or a failure, the virtual filesystem holds no entry.
C8_NoResidue ==
  \A s \in Slots :
    (Settled(slot[1][s]) /\ slot[1][s].path \in {"av", "img"}) => DOMAIN fs = {}

\* the positions of the sorted batch that posted an engine request
Engaged(c) ==
  {EventsOf(c)[p].k : p \in {q \in 1..Len(EventsOf(c)) : EventsOf(c)[q].e \in EngineOps}} \ {0}

\* C9: a job without target format makes convertFile fail with the
\* missing-target error, and convertFile issues no engine request for it (no
\* exec, no virtual-file write, read or delete).
C9_NoTargetNoEngine ==
  /\ \A k \in Engaged(1) : heap[call[1].sorted[k]].to # <<>>
  /\ \A s \in Slots :
       (slot[1][s].pc # "idle" /\ heap[slot[1][s].file].to = <<>>)
         => /\ slot[1][s].pc \in {"rejected", "done"}
            /\ slot[1][s].err = ErrNoTarget
            /\ slot[1][s].url = 0
  /\ \A p \in 1..Len(call[1].results) :
       heap[call[1].results[p].file].to = <<>> => call[1].results[p].error = ErrNoTarget

C9_Witness ==
  /\ Returned(1)
  /\ Len(call[1].results) = 2
  /\ \A p \in 1..2 : call[1].results[p].error = ErrNoTarget
  /\ CountAll(trace, "start") = 2
  /\ queue = <<>>

Oversize(f) == f.fileData.present /\ f.fileData.size > TwoGiB

WebFriendlyImage(f) == IsImage(f) /\ HasFormat(WEB_FRIENDLY_IMAGE_FORMATS, f.to)

\* C11: an image job whose target is jpg, jpeg, png or webp takes the canvas
\* path, and convertFile issues no virtual-file request (write, read or
\* delete) for it, whether convertImage succeeds or fails.
C11_CanvasNoFsOps ==
  /\ \A s \in Slots :
       LET sl == slot[1][s]
       IN (sl.pc # "idle" /\ WebFriendlyImage(heap[sl.file]) /\ Precondition(heap[sl.file]) = "")
            => sl.path = "canvas"
  /\ \A p \in 1..Len(trace) :
       (trace[p].k # 0 /\ trace[p].e \in {"write", "read", "delete"})
         => ~WebFriendlyImage(heap[call[1].sorted[trace[p].k]])

\* an image job whose target is one of svg, eps, ai
VectorImage(f) == IsImage(f) /\ HasFormat(VECTOR_FORMATS, f.to)

\* C12: an image job whose target is svg, eps or ai (and whose source data is
\* present and within the size limit) makes convertFile fail with the
\* unsupported-direct-conversion error, and gets no output URL.
C12_VectorUnsupported ==
  \A p \in 1..Len(call[1].results) :
    LET r == call[1].results[p]
    IN (VectorImage(heap[r.file]) /\ Precondition(heap[r.file]) = "")
         => /\ r.error = "Direct conversion to SVG is not supported yet. Please use a vector graphics editor."
            /\ r.url = 0
            /\ r.output = <<>>

\* the jobs of the displayed list
Shown == {heap[files[j]] : j \in 1..Len(files)}

\* C13: every job of the displayed list has an output handle (URL, output
\* name) only while it is converted, an error detail only while it is
\* errored, and never both.
C13_OutputXorError ==
  \A f \in Shown :
    /\ (f.url # 0 \/ f.output # <<>>) => (f.isConverted /\ ~f.isErrored)
    /\ f.error # "" => f.isErrored
    /\ ~(f.url # 0 /\ f.error # "")

\* what the card of a job displays
Status(f) ==
  IF f.isConverting THEN "converting"
  ELSE IF f.isConverted /\ ~f.isErrored THEN "converted"
  ELSE IF f.isErrored THEN "errored"
  ELSE "pending"

\* C14: a job of the displayed list that is converted or errored keeps that
\* status in every step that is not a handler of a user action (a click on
\* Retry, Remove, Convert Files or Convert More Files): the completion of a
\* batch or of a retry never changes it.
C14_TerminalIsFinal ==
  [][ running # 0 =>
        \A j \in 1..Len(files) :
          Status(heap[files[j]]) \in {"converted", "errored"}
            => /\ j <= Len(files')
               /\ Status(heap'[files'[j]]) = Status(heap[files[j]]) ]_vars

\* the fields of a job that a conversion sets
Outcome(f) == <<Status(f), f.url, f.output, f.error>>

\* C15: the steps of a retry (its progress callback and its completion)
\* leave the status, output and error fields of every job of the displayed
\* list other than the retried one unchanged.
C15_RetryFrame ==
  [][ \A c \in Calls :
        (running = c /\ call[c].kind = "retry") =>
          \A j \in 1..Len(files) :
            j # FindIndex(call[c].arr, call[c].input[1])
              => /\ j <= Len(files')
                 /\ Outcome(heap'[files'[j]]) = Outcome(heap[files[j]]) ]_vars

\* C16: when the progress callback has been invoked for a job, the job's
\* descriptor already shows the outcome: converted, with the output URL and
\* name, after a success; errored, with the error detail, after a failure.
C16_MutationBeforeCallback ==
  \A p \in 1..Len(call[1].results) :
    LET r == call[1].results[p]
        f == heap[r.file]
        k == FindIndex(call[1].sorted, r.file)
    IN Count(EventsOf(1), k, "progress") > 0 =>
         IF r.error = ""
         THEN f.isConverted /\ ~f.isConverting /\ f.url = r.url /\ f.output = r.output
         ELSE f.isErrored /\ ~f.isConverting /\ f.error = r.error

\* C17: no conversion, batch or retry, is started and no request is sent to
\* the engine before the engine's load has completed, and the page loads an
\* engine at most once.
C17_LoadedBeforeConversion ==
  /\ loads <= 1
  /\ \A c \in Calls : call[c].st # "none" => loads = 1
  /\ queue # <<>> => loads = 1
  /\ isFFMPEGLoaded => loads = 1

C17_Witness ==
  /\ loads = 1
  /\ ~isFFMPEGLoaded
  /\ \E c \in Calls : call[c].kind = "batch" /\ call[c].st = "finished"
  /\ \E c \in Calls : call[c].kind = "retry" /\ call[c].st # "none"

\* the object URL u is still held: by a job of the displayed list, or by a
\* conversion that has not finished (its list copy or a result on its way)
Held(u) ==
  \/ \E f \in Shown : f.url = u
  \/ \E c \in Calls :
       /\ call[c].st \notin {"none", "finished"}
       /\ \/ \E j \in 1..Len(call[c].arr) : heap[call[c].arr[j]].url = u
          \/ \E s \in Slots : slot[c][s].url = u

\* C18: every object URL created for a conversion output is either still
\* held by a job or has been revoked: removing a job that holds one, and
\* resetting the session, release it.
C18_RemovedUrlsRevoked == \A u \in 1..urls : u \in revoked \/ Held(u)

\* C19: when a batch conversion finishes, the aggregate advisory message is
\* shown exactly when no job of the batch reached converted, and the Download
\* All button is offered whenever at least one job did.
C19_AdvisoryAndBulkDownload ==
  [][ \A c \in Calls :
        (running = c /\ call[c].kind = "batch" /\ call[c].st = "returned") =>
          LET anyConverted == \E j \in 1..Len(call[c].arr) : heap[call[c].arr[j]].isConverted
          IN /\ (conversionError' = AllFailedMessage) <=> ~anyConverted
             /\ anyConverted => ShowsDownloadAll' ]_vars

\* the memory ceiling the host is taken to have: the reported heap limit,
\* raised to the 64 MiB floor, or 512 MiB when none is reported
DetectedCeiling ==
  IF jsHeapSizeLimit = 0 THEN 512 * MiB
  ELSE IF jsHeapSizeLimit < 64 * MiB THEN 64 * MiB
  ELSE jsHeapSizeLimit

\* the activations of convertFile that have computed their memory settings
Computed == {s \in Slots : slot[1][s].pc # "idle" /\ slot[1][s].path # ""}

\* C20: calculateMemorySettings gives threads = 1 when the file is larger
\* than 50 MiB or the memory ceiling is below 1 GiB, and threads = 0
\* otherwise; 0 for a 10 MiB file under a 2 GiB ceiling, 1 for a 100 MiB file
\* under every ceiling.
C20_ThreadsRule ==
  \A s \in Computed :
    LET size == heap[slot[1][s].file].fileData.size
        threads == slot[1][s].memSettings.threads
    IN /\ (size > 50 * MiB \/ DetectedCeiling < GiB) => threads = 1
       /\ (size <= 50 * MiB /\ DetectedCeiling >= GiB) => threads = 0
       /\ (size = 10 * MiB /\ jsHeapSizeLimit = 2 * GiB) => threads = 0
       /\ size = 100 * MiB => threads = 1

C20_Witness ==
  \E s \in Computed :
    /\ heap[slot[1][s].file].fileData.size = 10 * MiB
    /\ jsHeapSizeLimit = 2 * GiB
    /\ slot[1][s].memSettings.threads = 0

\* C21: the buffer size calculateMemorySettings computes is twice the file
\* size clamped to the range from 1 MiB to four fifths of the memory ceiling
\* (rounded down); it lies in that range for every file size, and the lower
\* end of the range never exceeds the upper end.
C21_BufferClamp ==
  \A s \in Computed :
    LET size == heap[slot[1][s].file].fileData.size
        bufsize == slot[1][s].memSettings.bufsize
        upper == (DetectedCeiling * 4) \div 5
    IN /\ MiB <= upper
       /\ MiB <= bufsize /\ bufsize <= upper
       /\ bufsize = IF 2 * size < MiB THEN MiB ELSE IF 2 * size > upper THEN upper ELSE 2 * size

C21_Witness ==
  /\ jsHeapSizeLimit = 1024
  /\ \E s \in Computed :
       /\ heap[slot[1][s].file].fileData.size = 100 * MiB
       /\ slot[1][s].memSettings.bufsize = (64 * MiB * 4) \div 5

\* ---------------------------------------------------------------- commands
\* the commands built so far for the activations of the first call
Built == {s \in Slots : slot[1][s].ffmpegCmd # <<>>}

Contains(cmd, str) == \E j \in 1..Len(cmd) : cmd[j] = <<str>>

ContainsPair(cmd, str, val) ==
  \E j \in 1..(Len(cmd) - 1) : cmd[j] = <<str>> /\ cmd[j + 1] = <<val>>

IsVideoJob(f) == startsWith(f.type, <<"video", "/">>)
IsAudioJob(f) == startsWith(f.type, <<"audio", "/">>)

TargetIs(f, set) == Len(f.to) = 1 /\ toLowerCase(f.to)[1] \in set

\* C22: the command of a video job with target webm names the libvpx video
\* codec and carries an audio codec directive; the command of a video job
\* with target 3gp or 3g2 carries -r 20, -s 352x288 and -maxrate 400k; two
\* conversions of the same job build the same command.
C22_VideoCommand ==
  /\ \A s \in Built :
       LET f == heap[slot[1][s].file]
           cmd == slot[1][s].ffmpegCmd
       IN IsVideoJob(f) =>
            /\ TargetIs(f, {"webm"}) => Contains(cmd, "libvpx") /\ Contains(cmd, "-c:a")
            /\ TargetIs(f, {"3gp", "3g2"}) =>
                 /\ ContainsPair(cmd, "-r", "20")
                 /\ ContainsPair(cmd, "-s", "352x288")
                 /\ ContainsPair(cmd, "-maxrate", "400k")
  /\ \A s \in Built, t \in Built :
       slot[1][s].file = slot[1][t].file => slot[1][s].ffmpegCmd = slot[1][t].ffmpegCmd

C22_Witness ==
  /\ IsVideoJob(heap[1])
  /\ heap[1].to = <<"WEBM">>
  /\ Cardinality(Built) = 2
  /\ \A s \in Built : ContainsPair(slot[1][s].ffmpegCmd, "-c:v", "libvpx")

\* C23: the command of a video job carries an audio codec directive next to
\* the video codec directive, for every video target on offer.
C23_AudioDirectiveEverywhere ==
  \A s \in Built :
    LET f == heap[slot[1][s].file]
        cmd == slot[1][s].ffmpegCmd
    IN IsVideoJob(f) /\ TargetIs(f, VideoTargets) =>
         Contains(cmd, "-c:v") /\ Contains(cmd, "-c:a")

\* C24: the command of an audio job with target mp3 uses libmp3lame at
\* 192k, with target aac the aac codec at 128k, with target ogg libvorbis;
\* the aac default is used only for targets without a preset of their own.
C24_AudioPresets ==
  \A s \in Built :
    LET f == heap[slot[1][s].file]
        cmd == slot[1][s].ffmpegCmd
    IN IsAudioJob(f) =>
         /\ TargetIs(f, {"mp3"}) =>
              ContainsPair(cmd, "-c:a", "libmp3lame") /\ ContainsPair(cmd, "-b:a", "192k")
         /\ TargetIs(f, {"aac"}) =>
              ContainsPair(cmd, "-c:a", "aac") /\ ContainsPair(cmd, "-b:a", "128k")
         /\ TargetIs(f, {"ogg"}) => ContainsPair(cmd, "-c:a", "libvorbis")
         /\ TargetIs(f, {"mp3", "ogg"}) => ~ContainsPair(cmd, "-c:a", "aac")

\* ------------------------------------------------------------------ upload
\* the text after the last dot of a name, empty for a name without a dot
AfterLastDot(name) ==
  IF Dots(name) = {} THEN <<>> ELSE SubSeq(name, lastIndexOf(name) + 1, Len(name))

\* C25: the source extension of every uploaded job is the text after the
\* last dot of its name, and is empty when the name has no dot.
C25_FromIsExtension ==
  \A j \in 1..Len(files) : heap[files[j]].from = AfterLastDot(heap[files[j]].name)

\* ------------------------------------------------- order of engine operations
\* the engine operations convertFile issued for the job at sorted position k
\* of invocation c, in the order of their issue
JobOps(c, k) ==
  LET sel == SelectSeq(EventsOf(c),
                       LAMBDA e : e.k = k /\ e.e \in {"delete", "write", "exec", "read"})
  IN [p \in 1..Len(sel) |-> sel[p].e]

HasSettled(c, k) == Count(EventsOf(c), k, "resolve") + Count(EventsOf(c), k, "reject") = 1

OpsOnSuccess == <<"delete", "delete", "write", "exec", "read", "delete", "delete">>
OpsOnWriteFailure == <<"delete", "delete", "write", "delete", "delete">>
OpsOnExecFailure == <<"delete", "delete", "write", "exec", "delete", "delete">>
OpsOnReadFailure == OpsOnSuccess

IsPrefix(a, b) == Len(a) <= Len(b) /\ a = SubSeq(b, 1, Len(a))

\* C26: for an audio or video job convertFile issues, in this order, the two
\* deletes of stale files, the write, the exec, the read and the two final
\* deletes; the final deletes are issued when the job succeeds and when the
\* write, the exec or the read fails.
C26_OperationOrder ==
  \A k \in 1..Len(call[1].sorted) :
    LET f == heap[call[1].sorted[k]]
        ops == JobOps(1, k)
    IN (Started(1, k) /\ ~IsImage(f) /\ Precondition(f) = "") =>
         /\ \/ IsPrefix(ops, OpsOnSuccess)
            \/ IsPrefix(ops, OpsOnWriteFailure)
            \/ IsPrefix(ops, OpsOnExecFailure)
         /\ HasSettled(1, k) => ops \in {OpsOnSuccess, OpsOnWriteFailure, OpsOnExecFailure,
                                       OpsOnReadFailure}
         /\ Count(EventsOf(1), k, "resolve") = 1 => ops = OpsOnSuccess

C26_Witness ==
  /\ Returned(1)
  /\ \E k, m \in 1..Len(call[1].sorted) :
       /\ Count(EventsOf(1), k, "resolve") = 1 /\ JobOps(1, k) = OpsOnSuccess
       /\ Count(EventsOf(1), m, "reject") = 1 /\ JobOps(1, m) = OpsOnExecFailure

\* ------------------------------------------------------ shared virtual files
\* two job descriptors stand for the same source file
SameSource(a, b) == heap[a].name = heap[b].name /\ heap[a].fileData = heap[b].fileData

\* the engine is about to serve the request of kind op of activation s
Serving(c, s, op) == slot[c][s].pc = op /\ AtHead(c, s, op)

\* C27: when the engine executes the command of a job, the virtual file
\* under the job's input name is there and holds the job's own source, and
\* when the engine serves the read that follows, an output found under the
\* job's output name was written by a command run on that source.
C27_OwnFiles ==
  \A c \in Calls, s \in Slots :
    LET sl == slot[c][s]
    IN /\ Serving(c, s, "exec") =>
            /\ Exists(sl.input)
            /\ fs[sl.input].kind = "src"
            /\ SameSource(fs[sl.input].file, sl.file)
       /\ (Serving(c, s, "read") /\ Exists(sl.output)) =>
            /\ fs[sl.output].kind \in {"out", "partial"}
            /\ SameSource(fs[sl.output].file, sl.file)

\* ------------------------------------------------------------ cleanup errors
\* C28: a rejected deleteFile of cleanupResources is swallowed: a conversion
\* whose precondition holds and whose engine operations other than the
\* deletes all succeed resolves, and a conversion that fails carries the
\* precondition error or the error of the failed conversion step, never
\* the error of a delete.
C28_CleanupSwallowed ==
  \A s \in Slots :
    LET sl == slot[1][s]
        pre == Precondition(heap[sl.file])
    IN sl.pc \in {"resolved", "rejected", "done"} =>
         /\ sl.err # ErrCleanup
         /\ sl.err # "" => sl.err = (IF pre # "" THEN pre
                                     ELSE IF sl.path = "canvas" THEN ErrCanvas ELSE ErrEngine)
         /\ (pre = "" /\ faults = 0) => sl.err = ""

\* the first conversion has succeeded and the second one goes on after its
\* delete of the absent input file was rejected (the delete of the output is
\* left behind, unawaited)
C28_Witness ==
  /\ faults = 0
  /\ slot[1][1].pc = "done" /\ slot[1][1].path = "av" /\ slot[1][1].err = ""
  /\ slot[1][2].pc = "fetch" /\ slot[1][2].path = "av"
  /\ \E p \in 1..Len(queue) : queue[p].op = "delete" /\ ~queue[p].waited

\* ------------------------------------------------------- failed engine clear
\* the chunks (named by the position before their first job) whose
\* engine-clear exec failed in invocation c
ClearFailed(c) == {i \in 0..Len(call[c].sorted) : Count(EventsOf(c), i, "clearfailed") > 0}

\* the positions of the jobs of the chunk after position i
JobsOfChunk(c, i) == {k \in 1..Len(call[c].sorted) : i < k /\ k <= i + CHUNK_SIZE}

\* C29: when the engine-clear exec of a chunk fails, convertFiles logs it,
\* starts no conversion, records no result, changes no status and calls no
\* progress callback for the jobs of that chunk, and goes on with the next
\* chunk.
C29_FailedClearSkipsChunk ==
  \A i \in ClearFailed(1) :
    /\ \A k \in JobsOfChunk(1, i) :
         LET id == call[1].sorted[k]
         IN /\ \A e \in {"start", "delete", "write", "exec", "read", "resolve", "reject",
                          "progress"} : Count(EventsOf(1), k, e) = 0
            /\ ResultsFor(1, id) = {}
            /\ heap[id] \in BatchSamples
    /\ call[1].st \in {"loop", "clear", "chunk", "returned"}
    /\ call[1].i >= i + CHUNK_SIZE
    /\ (Returned(1) /\ i + CHUNK_SIZE < Len(call[1].sorted))
         => Count(EventsOf(1), i + CHUNK_SIZE, "clear") = 1

C29_Witness ==
  /\ Returned(1)
  /\ BatchSize = 4
  /\ ClearFailed(1) = {0}
  /\ \A k \in {1, 2} : ResultsFor(1, call[1].sorted[k]) = {}
  /\ \A k \in {3, 4} : Cardinality(ResultsFor(1, call[1].sorted[k])) = 1
  /\ \E p \in 1..Len(call[1].results) : call[1].results[p].error = ""

\* ------------------------------------------------------ after the batch
\* C30: once handleFileConversion has finished, none of the jobs of its
\* batch is in the converting status, also when an engine-clear exec failed.
C30_NoneLeftConverting ==
  \A c \in Calls :
    (call[c].kind = "batch" /\ call[c].st = "finished")
      => \A j \in 1..Len(call[c].arr) : ~heap[call[c].arr[j]].isConverting

\* ------------------------------------------------------ after the reset
\* the session was reset, new files are uploaded and all have a target
ReadyAfterReset ==
  /\ loads = 1
  /\ ~isFFMPEGLoaded
  /\ files # <<>>
  /\ \A j \in 1..Len(files) : heap[files[j]].to # <<>>

\* C31: once the session was reset and new files are uploaded with their
\* targets chosen, the engine-loaded flag eventually becomes true again, so
\* that Convert Files is available.
C31_LoadedAgainAfterReset == ReadyAfterReset ~> isFFMPEGLoaded

\* ------------------------------------------------------------ removed jobs
\* C32: a job the user removed does not come back: while the session was
\* never reset (the loaded flag is still set), no step of a running
\* conversion (a progress callback, a completion) makes the displayed list
\* longer than it is.
C32_RemovedStaysRemoved ==
  [][ (running # 0 /\ isFFMPEGLoaded) => Len(files') <= Len(files) ]_vars

\* ---------------------------------------------------------------- downloads
\* if (file.url && file.output): the link gets its address, so that the
\* click starts a download
StartsDownload(f) == f.url # 0 /\ f.output # <<>>

\* C33: whenever a download can be triggered, by the Download button of a
\* card or by Download All, the object URL it fetches has not been revoked,
\* also when the job was downloaded before.
C33_DownloadUsesValidUrl ==
  running = 0 =>
    /\ \A index \in 1..Len(files) :
         LET f == heap[files[index]]
         IN (ShowsDownload(f) /\ StartsDownload(f)) => f.url \notin revoked
    /\ ShowsDownloadAll =>
         \A index \in 1..Len(files) :
           LET f == heap[files[index]]
           IN (~f.isErrored /\ StartsDownload(f)) => f.url \notin revoked

\* ------------------------------------------------------------ status flags
\* how many of the three status flags of a job are set
FlagsSet(f) ==
  (IF f.isConverting THEN 1 ELSE 0) + (IF f.isConverted THEN 1 ELSE 0)
    + (IF f.isErrored THEN 1 ELSE 0)

\* C34: every job of the displayed list has at most one of the flags
\* isConverting, isConverted and isErrored set.
C34_OneFlagAtMost == \A j \in 1..Len(files) : FlagsSet(heap[files[j]]) <= 1

\* ------------------------------------------------------- aggregate message
\* no batch and no retry is under way
NoConversionRunning == \A c \in Calls : call[c].st \in {"none", "finished"}

\* C35: when no conversion is under way and at least one job of the list is
\* converted, the aggregate all-failed message is not displayed and the
\* completed-batch actions are offered, also after a retry that succeeded
\* following a batch in which every job failed.
C35_ConvertedMeansCompleted ==
  (NoConversionRunning /\ \E f \in Shown : f.isConverted)
    => conversionError # AllFailedMessage /\ ShowsCompleted

\* -------------------------------------------------------------- result list
\* the engine-clear exec of the chunk of position k succeeded
ChunkCleared(c, k) == Count(EventsOf(c), CHUNK_SIZE * Chunk(k), "cleared") > 0

\* C36: the result list of convertFiles has at most one entry per job, the
\* entries are in processing order, every entry is either an output (a URL,
\* an output name, no error) or an error (no URL, no output name), and when
\* convertFiles has returned there is exactly one entry for every job of a
\* chunk whose engine-clear exec succeeded.
C36_ResultList ==
  LET cr == call[1]
      res == cr.results
  IN /\ \A j \in 1..BatchSize : Cardinality(ResultsFor(1, cr.arr[j])) <= 1
     /\ \A p, q \in 1..Len(res) :
          p < q => FindIndex(cr.sorted, res[p].file) < FindIndex(cr.sorted, res[q].file)
     /\ \A p \in 1..Len(res) :
          \/ res[p].error = "" /\ res[p].url # 0 /\ res[p].output # <<>>
          \/ res[p].error # "" /\ res[p].url = 0 /\ res[p].output = <<>>
     /\ Returned(1) =>
          \A k \in 1..Len(cr.sorted) :
            ChunkCleared(1, k) => Cardinality(ResultsFor(1, cr.sorted[k])) = 1

C36_Witness ==
  /\ Returned(1)
  /\ BatchSize = 5
  /\ ClearFailed(1) = {2}
  /\ Len(call[1].results) = 3
  /\ \E p \in 1..3 : call[1].results[p].error = ""
  /\ \E p \in 1..3 : call[1].results[p].error # ""
  /\ call[1].sorted # call[1].arr

\* ------------------------------------------------------- the caller's list
\* how often the reference id occurs in a list
Occurrences(list, id) == Cardinality({p \in 1..Len(list) : list[p] = id})

\* C37: convertFiles leaves the caller's list as it is: its working order is
\* a rearranged copy of the list it was given, an entry of the caller's
\* array differs from the one supplied only where the caller's callback has
\* replaced it after the job's report, and the job about to be reported to
\* the callback is the very object supplied, found in the caller's array
\* (for a batch: at the index it was supplied at).
C37_CallerListIntact ==
  \A c \in Calls :
    call[c].st \in {"loop", "clear", "chunk", "returned"} =>
      LET cr == call[c]
      IN /\ Len(cr.sorted) = Len(cr.input)
         /\ \A j \in 1..Len(cr.input) :
              Occurrences(cr.sorted, cr.input[j]) = Occurrences(cr.input, cr.input[j])
         /\ cr.kind = "batch" =>
              /\ Len(cr.arr) = Len(cr.input)
              /\ \A j \in 1..Len(cr.input) :
                   cr.arr[j] = cr.input[j] \/ ResultsFor(c, cr.input[j]) # {}
         /\ \A s \in Slots :
              slot[c][s].pc \in {"resolved", "rejected"} =>
                LET id == slot[c][s].file
                IN /\ FindIndex(cr.arr, id) # 0
                   /\ cr.kind = "batch" => FindIndex(cr.arr, id) = FindIndex(cr.input, id)

C37_Witness ==
  \E c \in Calls :
    /\ call[c].kind = "batch"
    /\ call[c].st = "chunk"
    /\ call[c].sorted # call[c].input
    /\ slot[c][1].pc = "resolved"
    /\ FindIndex(call[c].arr, slot[c][1].file) = 2

\* ------------------------------------------------- no reported heap ceiling
\* C38: when the host reports no heap ceiling, calculateMemorySettings gives
\* threads = 1 for every file size (the 512 MiB default is below 1 GiB);
\* threads = 0 is given only when the host reports a ceiling of at least
\* 1 GiB and the file is at most 50 MiB.
C38_DefaultCeilingOneThread ==
  \A s \in Computed :
    LET size == heap[slot[1][s].file].fileData.size
        threads == slot[1][s].memSettings.threads
    IN /\ threads \in {0, 1}
       /\ jsHeapSizeLimit = 0 => threads = 1
       /\ threads = 0 => jsHeapSizeLimit >= GiB /\ size <= 50 * MiB

C38_Witness ==
  /\ jsHeapSizeLimit = 0
  /\ Cardinality(Computed) = 2
  /\ \A s \in Computed :
       /\ heap[slot[1][s].file].fileData.size = 1
       /\ slot[1][s].memSettings.threads = 1
====
